---- MODULE Spec2Model ----
(***************************************************************************)
(* A model of tui-rain (src/src/lib.rs): the Rain widget, its builder,     *)
(* RainDensity / RainSpeed / CharacterSet resolution, Widget::render,      *)
(* build_drop and uniform.                                                 *)
(*                                                                         *)
(* Numbers.  f64 values are modelled as exact rationals <<n, d>> with      *)
(* d > 0 in lowest terms; f64 rounding is not modelled.  Durations are     *)
(* whole milliseconds.  The u64 values drawn from the generator are        *)
(* modelled on Bits bits instead of 64, so U64Max stands for u64::MAX.     *)
(* The generator itself (rand_pcg::Pcg64Mcg, an external crate) is         *)
(* modelled by a small congruential generator: all that render relies on   *)
(* is that it is a deterministic function of the seed.                     *)
(***************************************************************************)
EXTENDS Integers, Sequences, FiniteSets, TLC

VARIABLES
    pc,         \* where the host is: "start", "building", "ready", "drawn",
                \* "panicked"; "call" / "returned" for one call of a pure function
    rain,       \* the Rain value being built and then rendered
    setters,    \* the number of with_* calls made on rain
    frame,      \* the last render call: its inputs, its locals and the buffer
    rng,        \* the generator of the last render call, as that call left it
    earlier,    \* history: one earlier render call of the same run
    between,    \* history: a render call with other inputs followed `earlier`
    call,       \* the arguments of the pure function being called
    ret         \* what the pure function returned

vars == <<pc, rain, setters, frame, rng, earlier, between, call, ret>>

(***************************************************************************)
(* Bounds of the model.                                                    *)
(***************************************************************************)
\* width in bits of the modelled u64 draws
Bits == 3
\* with_seed takes a seed in 0..MaxSeed
MaxSeed == 1
\* elapsed takes the values 0, TickMs, ..., MaxTicks * TickMs
MaxTicks == 3
\* the widest surface of the frame loop
MaxWidth == 2
\* the tallest surface of the frame loop
MaxHeight == 3
\* the longest chain of with_* calls on one Rain
MaxSetters == 2

(***************************************************************************)
(* Program constants.                                                      *)
(***************************************************************************)
\* u16 arithmetic wraps modulo 2^16
U16Mod == 65536
\* u16::MAX, where a float-to-u16 cast saturates
U16Max == 65535
\* the default seed of every constructor
DefaultSeed == 1234
\* sparseness of the density presets
TorrentialSparseness == 20
ShoweringSparseness == 50
SprinklingSparseness == 100
\* speed of the speed presets
BeatingSpeed == 20
PouringSpeed == 10
TricklingSpeed == 5
\* the range of the HalfKana preset
HalfKanaStart == 65382
HalfKanaLen == 56
\* the range of the Lowercase preset
LowercaseStart == 97
LowercaseLen == 26

(***************************************************************************)
(* Exact rational arithmetic standing for f64.                             *)
(***************************************************************************)
Abs(n) == IF n < 0 THEN -n ELSE n

Min(a, b) == IF a <= b THEN a ELSE b

RECURSIVE GCD(_, _)
GCD(a, b) == IF b = 0 THEN a ELSE GCD(b, a % b)

\* the rational n / d (d # 0) in lowest terms with a positive denominator
Q(n, d) ==
    LET g == GCD(Abs(n), Abs(d))
        s == IF d < 0 THEN -1 ELSE 1
    IN  <<s * (n \div g), s * (d \div g)>>

QInt(n) == <<n, 1>>

QAdd(a, b) == Q(a[1] * b[2] + b[1] * a[2], a[2] * b[2])

QSub(a, b) == Q(a[1] * b[2] - b[1] * a[2], a[2] * b[2])

QMul(a, b) == Q(a[1] * b[1], a[2] * b[2])

\* a / b for b # 0
QDiv(a, b) == Q(a[1] * b[2], a[2] * b[1])

QLt(a, b) == a[1] * b[2] < b[1] * a[2]

QLe(a, b) == a[1] * b[2] <= b[1] * a[2]

\* f64::max
QMax(a, b) == IF QLt(a, b) THEN b ELSE a

\* the largest integer <= a
QFloor(a) == a[1] \div a[2]

\* the smallest integer >= a
QCeil(a) == -((-a[1]) \div a[2])

\* the f64 remainder a % b for a >= 0 and b > 0
QRem(a, b) == QSub(a, QMul(b, QInt(QFloor(QDiv(a, b)))))

\* `x as u16` of a float: truncates toward zero and saturates at 0 and u16::MAX
AsU16(a) == IF a[1] < 0 THEN 0 ELSE Min(QFloor(a), U16Max)

\* `x as usize` / `x as u32` of a float: truncates toward zero, saturates at 0
\* (the upper saturation is beyond the values of the model)
AsUnsigned(a) == IF a[1] < 0 THEN 0 ELSE QFloor(a)

\* Duration::as_secs_f64 of a duration of ms milliseconds
as_secs_f64(ms) == Q(ms, 1000)

(***************************************************************************)
(* The seeded random source.                                               *)
(***************************************************************************)
RECURSIVE Pow2(_)
Pow2(n) == IF n = 0 THEN 1 ELSE 2 * Pow2(n - 1)

\* u64::MAX on the modelled width
U64Max == Pow2(Bits) - 1

\* Pcg64Mcg::seed_from_u64: the generator state of a seed
seed_from_u64(seed) == seed % (U64Max + 1)

\* one step of the generator state
rng_step(state) == (5 * state + 3) % (U64Max + 1)

\* RngCore::next_u64: the value drawn from a state that was just stepped to
rng_output(state) == state

\* the state after n draws
RECURSIVE rng_after(_, _)
rng_after(state, n) == IF n = 0 THEN state ELSE rng_after(rng_step(state), n - 1)

\* the n-th draw (n >= 1) of a generator in the given state
next_u64(state, n) == rng_output(rng_after(state, n))

\* build_rng as it would be if the generator outlived the render call: the
\* draws go on from where the last call left them
build_rng_carried(self) == rng

\* Rain::build_rng: the generator state render starts from
build_rng(self) == seed_from_u64(self.seed)

(***************************************************************************)
(* Parameter resolution.                                                   *)
(***************************************************************************)
Absolute(n) == [kind |-> "Absolute", n |-> n]
Relative(n) == [kind |-> "Relative", n |-> n]
Torrential == [kind |-> "Torrential", n |-> 0]
Showering == [kind |-> "Showering", n |-> 0]
Sprinkling == [kind |-> "Sprinkling", n |-> 0]

\* the outcome of a computation that may panic
Ok(v) == [panic |-> FALSE, value |-> v]
Panic == [panic |-> TRUE, value |-> 0]

\* `area.width * area.height` on u16: with overflow checks (debug profile) an
\* overflow panics, without them (release profile) the product wraps
u16_mul(a, b, overflow_checks) ==
    IF a * b < U16Mod THEN Ok(a * b)
    ELSE IF overflow_checks THEN Panic
    ELSE Ok((a * b) % U16Mod)

\* RainDensity::num_drops, the Relative arm with sparseness > 0
relative_num_drops(sparseness, area, overflow_checks) ==
    LET product == u16_mul(area.width, area.height, overflow_checks)
    IN  IF product.panic THEN Panic ELSE Ok(product.value \div sparseness)

\* RainDensity::num_drops
num_drops(density, area, overflow_checks) ==
    CASE density.kind = "Absolute" -> Ok(density.n)
      [] density.kind = "Relative" /\ density.n = 0 -> Ok(0)
      [] density.kind = "Relative" /\ density.n # 0 ->
            relative_num_drops(density.n, area, overflow_checks)
      [] density.kind = "Torrential" ->
            relative_num_drops(TorrentialSparseness, area, overflow_checks)
      [] density.kind = "Showering" ->
            relative_num_drops(ShoweringSparseness, area, overflow_checks)
      [] density.kind = "Sprinkling" ->
            relative_num_drops(SprinklingSparseness, area, overflow_checks)

AbsoluteSpeed(q) == [kind |-> "Absolute", speed |-> q]
Beating == [kind |-> "Beating", speed |-> <<0, 1>>]
Pouring == [kind |-> "Pouring", speed |-> <<0, 1>>]
Trickling == [kind |-> "Trickling", speed |-> <<0, 1>>]

\* RainSpeed::speed
speed(rain_speed) ==
    CASE rain_speed.kind = "Absolute" -> rain_speed.speed
      [] rain_speed.kind = "Beating" -> QInt(BeatingSpeed)
      [] rain_speed.kind = "Pouring" -> QInt(PouringSpeed)
      [] rain_speed.kind = "Trickling" -> QInt(TricklingSpeed)

Explicit(options) == [kind |-> "Explicit", options |-> options, start |-> 0, len |-> 0]
UnicodeRange(start, len) ==
    [kind |-> "UnicodeRange", options |-> <<>>, start |-> start, len |-> len]
HalfKana == [kind |-> "HalfKana", options |-> <<>>, start |-> 0, len |-> 0]
Lowercase == [kind |-> "Lowercase", options |-> <<>>, start |-> 0, len |-> 0]

\* char::from_u32 is Some for the scalar values: not a surrogate, at most 0x10FFFF
is_char(c) == (c < 55296 \/ c > 57343) /\ c <= 1114111

\* CharacterSet::get, the UnicodeRange arm: `seed % len` panics for len = 0 and
\* the unwrap panics when the code point is no char
range_get(start, len, seed) ==
    IF len = 0 THEN Panic
    ELSE IF ~is_char((seed % len) + start) THEN Panic
    ELSE Ok((seed % len) + start)

\* CharacterSet::get: indexing `options[seed % options.len()]` panics for an
\* empty list
get(character_set, seed) ==
    CASE character_set.kind = "Explicit" ->
            IF Len(character_set.options) = 0 THEN Panic
            ELSE Ok(character_set.options[(seed % Len(character_set.options)) + 1])
      [] character_set.kind = "UnicodeRange" ->
            range_get(character_set.start, character_set.len, seed)
      [] character_set.kind = "HalfKana" -> range_get(HalfKanaStart, HalfKanaLen, seed)
      [] character_set.kind = "Lowercase" -> range_get(LowercaseStart, LowercaseLen, seed)

\* CharacterSet::size
size(character_set) ==
    CASE character_set.kind = "Explicit" -> Len(character_set.options)
      [] character_set.kind = "UnicodeRange" -> character_set.len
      [] character_set.kind = "HalfKana" -> HalfKanaLen
      [] character_set.kind = "Lowercase" -> LowercaseLen

\* uniform: maps a draw to a float by linear scaling over the draw's domain
uniform(seed, lower, upper) ==
    QAdd(QMul(Q(seed, U64Max), QSub(upper, lower)), lower)

(***************************************************************************)
(* build_drop.                                                             *)
(***************************************************************************)
White == "White"

\* Style::default() with the foreground and the modifiers build_drop sets
Style(fg, bold, dim) == [fg |-> fg, bold |-> bold, dim |-> dim]

Glyph(x, y, age, content, style) ==
    [x |-> x, y |-> y, age |-> age, content |-> content, style |-> style]

\* the speed floor of build_drop
SpeedFloor == Q(1, 1000)

\* the drop's actual speed
drop_speed(entropy, rain_speed, rain_speed_variance) ==
    QMax(uniform(entropy[1],
                 QMul(rain_speed, QSub(QInt(1), rain_speed_variance)),
                 QMul(rain_speed, QAdd(QInt(1), rain_speed_variance))),
         SpeedFloor)

\* how long the drop takes to make one cycle of its track
cycle_time_secs(entropy, drop_rain_speed) == QDiv(QInt(Len(entropy)), drop_rain_speed)

\* the drop's stable time offset
initial_cycle_offset_secs(entropy, cycle_time) == uniform(entropy[1], QInt(0), cycle_time)

\* current_cycle_offset_secs without the remainder by the cycle time
current_cycle_offset_unwrapped(elapsed, initial_cycle_offset, cycle_time) ==
    QAdd(elapsed, initial_cycle_offset)

\* how far the drop is into its current cycle
current_cycle_offset_secs(elapsed, initial_cycle_offset, cycle_time) ==
    QRem(QAdd(elapsed, initial_cycle_offset), cycle_time)

\* the row of the drop's head
head_y(current_cycle_offset, drop_rain_speed) ==
    AsU16(QMul(current_cycle_offset, drop_rain_speed))

\* the number of glyphs of the drop
drop_len(drop_rain_speed, tail_lifespan, height) ==
    Min(AsU16(QMul(drop_rain_speed, tail_lifespan)), height)

\* the locals of build_drop in front of its glyph loop, for a non-empty entropy
drop_locals(character_set, entropy, elapsed, width, height, rain_speed, rain_speed_variance, tail_lifespan, noise_interval, color) ==
    LET s == drop_speed(entropy, rain_speed, rain_speed_variance)
        cycle == cycle_time_secs(entropy, s)
        initial == initial_cycle_offset_secs(entropy, cycle)
        current == current_cycle_offset_secs(elapsed, initial, cycle)
    IN  [character_set |-> character_set, entropy |-> entropy, elapsed |-> elapsed,
         width |-> width, height |-> height, noise_interval |-> noise_interval,
         color |-> color,
         track_len |-> Len(entropy) % U16Mod,
         rain_speed |-> s,
         cycle_time_secs |-> cycle,
         initial_cycle_offset_secs |-> initial,
         head_y |-> head_y(current, s),
         drop_len |-> drop_len(s, tail_lifespan, height)]

\* how long ago the glyph y_offset rows behind the head first appeared
glyph_age(l, y_offset) == QDiv(QInt(y_offset), l.rain_speed)

\* which cycle the glyph is a member of
glyph_cycle_num(l, y_offset) ==
    AsUnsigned(QDiv(QSub(QAdd(l.elapsed, l.initial_cycle_offset_secs),
                         glyph_age(l, y_offset)),
                    l.cycle_time_secs))

\* glyph_skipped without the early return for cycle 0
glyph_skipped_age_only(l, y_offset) == QLt(l.elapsed, glyph_age(l, y_offset))

\* the glyph is skipped by one of the two early returns in front of its column
glyph_skipped(l, y_offset) ==
    \/ QLt(l.elapsed, glyph_age(l, y_offset))
    \/ glyph_cycle_num(l, y_offset) = 0

\* glyph_x with the column chosen per row instead of per cycle
glyph_x_per_row(l, y_offset) ==
    (l.entropy[(((l.head_y + l.track_len - y_offset) % U16Mod) % l.track_len) + 1]
        % l.width) % U16Mod

\* the column of the glyph (width > 0)
glyph_x(l, y_offset) ==
    (l.entropy[(glyph_cycle_num(l, y_offset) % Len(l.entropy)) + 1] % l.width) % U16Mod

\* the row of the glyph (track_len > 0), in wrapping u16 arithmetic; the sum
\* head_y + track_len stays far below 2^16 on the surfaces of the model, so the
\* overflow check of a debug build never fires here
glyph_y(l, y_offset) ==
    ((l.head_y + l.track_len - y_offset) % U16Mod) % l.track_len

\* glyph_off_screen with the comparison off by one
glyph_off_screen_off_by_one(l, y_offset) ==
    (((l.head_y + l.track_len - y_offset) % U16Mod) % l.track_len) > l.height

\* the glyph is not rendered because its row is off the screen
glyph_off_screen(l, y_offset) == glyph_y(l, y_offset) >= l.height

\* the random offset of the glyph's slow cycling through the character set
glyph_time_offset(l, y_offset) ==
    uniform(l.entropy[glyph_y(l, y_offset) + 1], QInt(0),
            QMul(l.noise_interval, QInt(size(l.character_set))))

\* the character of the glyph, or the panic of CharacterSet::get (the noise
\* interval is positive in the model, so the division is a finite float)
glyph_content(l, y_offset) ==
    get(l.character_set,
        AsUnsigned(QDiv(QAdd(glyph_time_offset(l, y_offset), l.elapsed),
                        l.noise_interval)))

\* the styling of the glyph
glyph_style(l, y_offset) ==
    LET fg == IF QLt(QInt(0), glyph_age(l, y_offset)) THEN l.color ELSE White
    IN  IF y_offset < l.drop_len \div 3 THEN Style(fg, TRUE, FALSE)
        ELSE IF y_offset > (l.drop_len * 2) \div 3 THEN Style(fg, FALSE, TRUE)
        ELSE Style(fg, FALSE, FALSE)

\* the closure of the filter_map panics at this y_offset: a modulo by a zero
\* width or track_len, or CharacterSet::get
glyph_panics(l, y_offset) ==
    /\ ~glyph_skipped(l, y_offset)
    /\ \/ l.width = 0
       \/ l.track_len = 0
       \/ ~glyph_off_screen(l, y_offset) /\ glyph_content(l, y_offset).panic

\* the closure of the filter_map returns Some at this y_offset
glyph_emitted(l, y_offset) ==
    /\ ~glyph_skipped(l, y_offset)
    /\ ~glyph_off_screen(l, y_offset)

\* the Glyph the closure returns
drop_glyph(l, y_offset) ==
    Glyph(glyph_x(l, y_offset), glyph_y(l, y_offset), glyph_age(l, y_offset),
          glyph_content(l, y_offset).value, glyph_style(l, y_offset))

\* (0..drop_len).filter_map(..).collect(), from y_offset on
RECURSIVE drop_glyphs(_, _)
drop_glyphs(l, y_offset) ==
    IF y_offset >= l.drop_len THEN <<>>
    ELSE IF glyph_emitted(l, y_offset)
         THEN <<drop_glyph(l, y_offset)>> \o drop_glyphs(l, y_offset + 1)
         ELSE drop_glyphs(l, y_offset + 1)

\* build_drop: the glyphs of one drop, or a panic
build_drop(character_set, entropy, elapsed, width, height, rain_speed, rain_speed_variance, tail_lifespan, noise_interval, color) ==
    IF Len(entropy) = 0 THEN Ok(<<>>)
    ELSE LET l == drop_locals(character_set, entropy, elapsed, width, height,
                              rain_speed, rain_speed_variance, tail_lifespan,
                              noise_interval, color)
         IN  IF \E y_offset \in 0..(l.drop_len - 1) : glyph_panics(l, y_offset)
             THEN Panic
             ELSE Ok(drop_glyphs(l, 0))

(***************************************************************************)
(* Widget::render for Rain.                                                *)
(***************************************************************************)
Rect(x, y, width, height) == [x |-> x, y |-> y, width |-> width, height |-> height]

\* twice the resolved number of drops, or the panic of num_drops (the surfaces
\* render is given here are far below the u16 overflow of width * height, so
\* both build profiles compute the same)
render_num_drops(self, area) ==
    LET n == num_drops(self.rain_density, area, TRUE)
    IN  IF n.panic THEN Panic ELSE Ok(n.value * 2)

\* drop_track_lens: one draw per drop (area.height > 0)
drop_track_lens(state, n, area) ==
    [i \in 1..n |-> ((area.height * 3) \div 2) + (next_u64(state, i) % area.height)]

\* the entropy vectors of the drops from drop i on; `drawn` draws were made
RECURSIVE entropy_from(_, _, _, _)
entropy_from(state, lens, i, drawn) ==
    IF i > Len(lens) THEN <<>>
    ELSE <<[j \in 1..lens[i] |-> next_u64(state, drawn + j)]>>
         \o entropy_from(state, lens, i + 1, drawn + lens[i])

\* entropy: one vector per drop, drawn after the track lengths
render_entropy(state, n, area) ==
    entropy_from(state, drop_track_lens(state, n, area), 1, n)

RECURSIVE SumLens(_)
SumLens(vecs) == IF vecs = <<>> THEN 0 ELSE Len(Head(vecs)) + SumLens(Tail(vecs))

\* the build_drop call render makes for one entropy vector
render_build_drop(self, area, drop_entropy) ==
    build_drop(self.character_set, drop_entropy, as_secs_f64(self.elapsed),
               area.width, area.height, speed(self.rain_speed),
               self.rain_speed_variance, as_secs_f64(self.tail_lifespan),
               as_secs_f64(self.noise_interval), self.color)

RECURSIVE Flatten(_)
Flatten(seqs) == IF seqs = <<>> THEN <<>> ELSE Head(seqs) \o Flatten(Tail(seqs))

\* the comparator of the sort: a goes in front of b
sort_before(a, b) == QLt(a.age, b.age)

\* inserts g behind every glyph that does not go behind it (the sort is stable)
RECURSIVE InsertSorted(_, _)
InsertSorted(sorted, g) ==
    IF sorted = <<>> THEN <<g>>
    ELSE IF sort_before(g, Head(sorted)) THEN <<g>> \o sorted
    ELSE <<Head(sorted)>> \o InsertSorted(Tail(sorted), g)

\* glyphs.sort_by(..) of the first n glyphs
RECURSIVE sort_by_age(_, _)
sort_by_age(glyphs, n) ==
    IF n = 0 THEN <<>> ELSE InsertSorted(sort_by_age(glyphs, n - 1), glyphs[n])

\* a cell of the buffer
Cell(symbol, style) == [symbol |-> symbol, style |-> style]

\* the cell of a buffer that was reset
BlankCell == Cell(32, Style("Reset", FALSE, FALSE))

\* the buffer the host hands to render: the cells of area, reset
empty_buffer(area) ==
    [c \in (0..(area.width - 1)) \X (0..(area.height - 1)) |-> BlankCell]

\* the write loop of render over the glyphs from the i-th on
RECURSIVE write_glyphs(_, _, _)
write_glyphs(buf, glyphs, i) ==
    IF i > Len(glyphs) THEN buf
    ELSE write_glyphs([buf EXCEPT ![<<glyphs[i].x, glyphs[i].y>>] =
                                      Cell(glyphs[i].content, glyphs[i].style)],
                      glyphs, i + 1)

NoRain ==
    [elapsed |-> 0, seed |-> 0, rain_density |-> Absolute(0),
     rain_speed |-> AbsoluteSpeed(<<0, 1>>), rain_speed_variance |-> <<0, 1>>,
     tail_lifespan |-> 0, color |-> "Reset", noise_interval |-> 0,
     character_set |-> Explicit(<<>>)]

NoFrame ==
    [status |-> "none", rain |-> NoRain, area |-> Rect(0, 0, 0, 0),
     entropy |-> <<>>, drops |-> <<>>, glyphs |-> <<>>, buf |-> <<>>]

\* a render call that panicked: the buffer was not written
PanickedFrame(self, area) ==
    [status |-> "panic", rain |-> self, area |-> area,
     entropy |-> <<>>, drops |-> <<>>, glyphs |-> <<>>, buf |-> empty_buffer(area)]

\* render from the drops on: build every drop, sort, write
render_drops(self, area, entropy) ==
    LET built == [i \in 1..Len(entropy) |-> render_build_drop(self, area, entropy[i])]
    IN  IF \E i \in 1..Len(entropy) : built[i].panic
        THEN PanickedFrame(self, area)
        ELSE LET drops == [i \in 1..Len(entropy) |-> built[i].value]
                 all == Flatten(drops)
                 glyphs == sort_by_age(all, Len(all))
             IN  [status |-> "ok", rain |-> self, area |-> area,
                  entropy |-> entropy, drops |-> drops, glyphs |-> glyphs,
                  buf |-> write_glyphs(empty_buffer(area), glyphs, 1)]

\* Widget::render: the frame it leaves, starting from the generator state
render(self, area, state) ==
    LET n == render_num_drops(self, area)
    IN  IF n.panic \/ (n.value > 0 /\ area.height = 0)
        THEN PanickedFrame(self, area)
        ELSE render_drops(self, area, render_entropy(state, n.value, area))

\* the generator state render leaves behind
render_rng(self, area, state) ==
    LET n == render_num_drops(self, area)
    IN  IF n.panic \/ (n.value > 0 /\ area.height = 0) THEN state
        ELSE rng_after(state, n.value + SumLens(render_entropy(state, n.value, area)))

(***************************************************************************)
(* The inputs of the model.                                                *)
(***************************************************************************)
\* the elapsed times a Rain is constructed with, in milliseconds
Elapseds == {500 * k : k \in 0..MaxTicks}

\* the surfaces the host renders on
Areas == {Rect(0, 0, w, h) : w \in {0, MaxWidth},
                             h \in {0, MaxHeight - 1, MaxHeight}}

Seeds == 0..MaxSeed

Densities == {Absolute(1), Relative(6)}

Speeds == {AbsoluteSpeed(<<1, 1>>)}

Variances == {<<2, 1>>}

TailLifespans == {1000}

Colors == {"Red"}

NoiseIntervals == {500}

CharacterSets == {Explicit(<<>>), Explicit(<<120, 121>>), UnicodeRange(65, 0), Lowercase}

(***************************************************************************)
(* The constructors and the builder.                                       *)
(***************************************************************************)
Constructed(value) ==
    /\ pc = "start"
    /\ pc' = "building"
    /\ rain' = value
    /\ setters' = 0
    /\ UNCHANGED <<frame, rng, earlier, between, call, ret>>

NewMatrix ==
    \E elapsed \in Elapseds :
        Constructed([elapsed |-> elapsed, seed |-> DefaultSeed,
                     rain_density |-> Showering, rain_speed |-> Trickling,
                     rain_speed_variance |-> <<1, 2>>, tail_lifespan |-> 2000,
                     color |-> "LightGreen", noise_interval |-> 5000,
                     character_set |-> HalfKana])

NewRain ==
    \E elapsed \in Elapseds :
        Constructed([elapsed |-> elapsed, seed |-> DefaultSeed,
                     rain_density |-> Torrential, rain_speed |-> Beating,
                     rain_speed_variance |-> <<1, 2>>, tail_lifespan |-> 250,
                     color |-> "LightBlue", noise_interval |-> 1000,
                     character_set |-> UnicodeRange(124, 1)])

NewSnow ==
    \E elapsed \in Elapseds :
        Constructed([elapsed |-> elapsed, seed |-> DefaultSeed,
                     rain_density |-> Torrential,
                     rain_speed |-> AbsoluteSpeed(<<2, 1>>),
                     rain_speed_variance |-> <<1, 10>>, tail_lifespan |-> 500,
                     color |-> White, noise_interval |-> 1000,
                     character_set |-> UnicodeRange(42, 1)])

NewEmojiSoup ==
    \E elapsed \in Elapseds :
        Constructed([elapsed |-> elapsed, seed |-> DefaultSeed,
                     rain_density |-> Torrential, rain_speed |-> Pouring,
                     rain_speed_variance |-> <<1, 10>>, tail_lifespan |-> 500,
                     color |-> White, noise_interval |-> 1000,
                     character_set |-> UnicodeRange(128512, 80)])

\* a with_* call: it assigns the field and returns the Rain; nothing is validated
Set(value) ==
    /\ pc = "building"
    /\ setters < MaxSetters
    /\ rain' = value
    /\ setters' = setters + 1
    /\ UNCHANGED <<pc, frame, rng, earlier, between, call, ret>>

WithSeed == \E seed \in Seeds : Set([rain EXCEPT !.seed = seed])

WithRainDensity == \E d \in Densities : Set([rain EXCEPT !.rain_density = d])

WithRainSpeed == \E s \in Speeds : Set([rain EXCEPT !.rain_speed = s])

WithRainSpeedVariance ==
    \E v \in Variances : Set([rain EXCEPT !.rain_speed_variance = v])

WithTailLifespan == \E t \in TailLifespans : Set([rain EXCEPT !.tail_lifespan = t])

WithColor == \E c \in Colors : Set([rain EXCEPT !.color = c])

WithNoiseInterval ==
    \E i \in NoiseIntervals : Set([rain EXCEPT !.noise_interval = i])

WithCharacterSet ==
    \E cs \in CharacterSets : Set([rain EXCEPT !.character_set = cs])

(***************************************************************************)
(* The frame loop.                                                         *)
(***************************************************************************)
SameInputs(f, g) == f.rain = g.rain /\ f.area = g.area

\* the host renders the Rain on a surface of its choice; a panic ends the run
Render ==
    \E area \in Areas :
        /\ pc \in {"building", "ready"}
        /\ frame' = render(rain, area, build_rng(rain))
        /\ rng' = render_rng(rain, area, build_rng(rain))
        /\ pc' = IF frame'.status = "panic" THEN "panicked" ELSE "drawn"
        /\ setters' = 0
        /\ between' = (between \/ (earlier.status = "ok" /\ ~SameInputs(frame', earlier)))
        /\ UNCHANGED <<rain, earlier, call, ret>>

\* the next iteration of the host's loop: the same builder chain runs with the
\* elapsed time of the new frame, and the surface it draws on was reset
NextFrame ==
    \E elapsed \in Elapseds :
        /\ pc = "drawn"
        /\ pc' = "ready"
        /\ rain' = [rain EXCEPT !.elapsed = elapsed]
        /\ frame' = NoFrame
        /\ UNCHANGED <<setters, rng, earlier, between, call, ret>>

\* history only: keeps the frame just drawn, if it had drops, for comparison
\* with later ones
Remember ==
    /\ pc = "drawn"
    /\ earlier.status = "none"
    /\ frame.entropy # <<>>
    /\ earlier' = frame
    /\ UNCHANGED <<pc, rain, setters, frame, rng, between, call, ret>>

Init ==
    /\ pc = "start"
    /\ rain = NoRain
    /\ setters = 0
    /\ frame = NoFrame
    /\ rng = 0
    /\ earlier = NoFrame
    /\ between = FALSE
    /\ call = <<>>
    /\ ret = <<>>

\* one Rain per run, built by any chain of at most MaxSetters with_* calls
Next ==
    \/ NewMatrix
    \/ NewRain
    \/ NewSnow
    \/ NewEmojiSoup
    \/ WithSeed
    \/ WithRainDensity
    \/ WithRainSpeed
    \/ WithRainSpeedVariance
    \/ WithTailLifespan
    \/ WithColor
    \/ WithNoiseInterval
    \/ WithCharacterSet
    \/ Render
    \/ NextFrame

Spec == Init /\ [][Next]_vars

\* the frame loop of a host whose chain sets the seed and the density, with the
\* history of one earlier frame
LoopNext ==
    \/ NewMatrix
    \/ NewRain
    \/ NewSnow
    \/ NewEmojiSoup
    \/ WithSeed
    \/ WithRainDensity
    \/ Render
    \/ NextFrame
    \/ Remember

LoopSpec == Init /\ [][LoopNext]_vars

(***************************************************************************)
(* Calls of the pure functions on drawn arguments.                         *)
(***************************************************************************)
\* the largest surface dimension num_drops is called with
MaxDim == 300

Dims == {0, 1, 20, 255, 256, MaxDim}

DensityArgs ==
    {Absolute(0), Absolute(2), Relative(0), Relative(1), Relative(7),
     Torrential, Showering, Sprinkling}

PureInit(args) ==
    /\ pc = "call"
    /\ call \in args
    /\ ret = <<>>
    /\ rain = NoRain
    /\ setters = 0
    /\ frame = NoFrame
    /\ rng = 0
    /\ earlier = NoFrame
    /\ between = FALSE

Returned(value) ==
    /\ pc = "call"
    /\ pc' = "returned"
    /\ ret' = value
    /\ UNCHANGED <<rain, setters, frame, rng, earlier, between, call>>

\* one call of RainDensity::num_drops, under either build profile
DensityInit ==
    PureInit([density : DensityArgs,
              area : {Rect(0, 0, w, h) : w \in Dims, h \in Dims},
              overflow_checks : BOOLEAN])

CallNumDrops == Returned(num_drops(call.density, call.area, call.overflow_checks))

DensitySpec == DensityInit /\ [][CallNumDrops]_vars

\* the floats uniform is called with
UniformBounds == {<<-1, 1>>, <<0, 1>>, <<1, 2>>, <<1, 1>>, <<5, 2>>}

\* one call of uniform with lower < upper
UniformInit ==
    PureInit({a \in [seed : 0..U64Max, lower : UniformBounds, upper : UniformBounds] :
                 QLt(a.lower, a.upper)})

CallUniform == Returned(uniform(call.seed, call.lower, call.upper))

UniformSpec == UniformInit /\ [][CallUniform]_vars

(***************************************************************************)
(* Rendering into an area of a caller's buffer.                            *)
(***************************************************************************)
\* the largest coordinate of the origin of an area
MaxOrigin == 1

\* what a caller's buffer holds in every cell before the call
PriorCell == Cell(35, Style("Reset", FALSE, FALSE))

\* the positions a Rect covers
Positions(rect) ==
    (rect.x..(rect.x + rect.width - 1)) \X (rect.y..(rect.y + rect.height - 1))

\* a buffer over rect: a cell for every position of rect, and for no other
filled_buffer(rect, cell) == [p \in Positions(rect) |-> cell]

\* the index of the first glyph the write loop indexes outside the buffer (the
\* index operator of the buffer panics there), or 0
first_outside(buf, glyphs) ==
    LET out == {i \in 1..Len(glyphs) : <<glyphs[i].x, glyphs[i].y>> \notin DOMAIN buf}
    IN  IF out = {} THEN 0 ELSE CHOOSE i \in out : \A j \in out : i <= j

\* the write loop of render on the caller's buffer: f is the frame render
\* computed from the size of the area alone, and its glyphs are written at
\* (glyph.x, glyph.y) until one lies outside the buffer
write_into(f, buf) ==
    LET stop == first_outside(buf, f.glyphs)
    IN  IF f.status = "panic" THEN [f EXCEPT !.buf = buf]
        ELSE IF stop # 0
        THEN [f EXCEPT !.status = "panic",
                       !.buf = write_glyphs(buf, SubSeq(f.glyphs, 1, stop - 1), 1)]
        ELSE [f EXCEPT !.buf = write_glyphs(buf, f.glyphs, 1)]

\* the areas a caller hands to render, with every origin up to MaxOrigin
SubAreas ==
    {Rect(x, y, MaxWidth, h) : x \in 0..MaxOrigin, y \in 0..MaxOrigin,
                               h \in {MaxHeight - 1, MaxHeight}}

\* the buffers a caller holds for an area: a buffer of just the area, and the
\* buffer of a terminal that starts at (0, 0) and ends one cell past the area
Buffers(area) ==
    {filled_buffer(area, PriorCell),
     filled_buffer(Rect(0, 0, area.x + area.width + 1, area.y + area.height + 1),
                   PriorCell)}

\* a caller renders the Rain on an area of a buffer it holds; a panic ends the
\* run
RenderInto ==
    \E area \in SubAreas : \E buf \in Buffers(area) :
        /\ pc \in {"building", "ready"}
        /\ call' = [area |-> area, buf |-> buf]
        /\ \E f \in {render(rain, area, build_rng(rain))} : frame' = write_into(f, buf)
        /\ rng' = render_rng(rain, area, build_rng(rain))
        /\ pc' = IF frame'.status = "panic" THEN "panicked" ELSE "drawn"
        /\ setters' = 0
        /\ UNCHANGED <<rain, earlier, between, ret>>

\* the frame loop of a caller that lays the Rain out on a part of its buffer
SurfaceNext ==
    \/ NewMatrix
    \/ NewRain
    \/ NewSnow
    \/ NewEmojiSoup
    \/ WithRainDensity
    \/ RenderInto
    \/ NextFrame

SurfaceSpec == Init /\ [][SurfaceNext]_vars

(***************************************************************************)
(* The claims.                                                             *)
(***************************************************************************)
\* the locals of build_drop for the i-th drop of a frame
FrameLocals(f, i) ==
    drop_locals(f.rain.character_set, f.entropy[i], as_secs_f64(f.rain.elapsed),
                f.area.width, f.area.height, speed(f.rain.rain_speed),
                f.rain.rain_speed_variance, as_secs_f64(f.rain.tail_lifespan),
                as_secs_f64(f.rain.noise_interval), f.rain.color)

\* the cycle number floor((t + phaseOffset - age) / cyclePeriod) of the spec
CycleNumber(l, age) ==
    QFloor(QDiv(QSub(QAdd(l.elapsed, l.initial_cycle_offset_secs), age),
                l.cycle_time_secs))

\* the trail offset k of a glyph of a drop: age = k / perDropSpeed
TrailOffset(l, g) == QFloor(QMul(g.age, l.rain_speed))

\* the indices of the glyphs of a frame that land on a cell
GlyphsOn(f, c) == {i \in 1..Len(f.glyphs) : <<f.glyphs[i].x, f.glyphs[i].y>> = c}

\* the glyphs on the cell show different things and have different ages
Collision(f, c) ==
    \E i, j \in GlyphsOn(f, c) :
        /\ QLt(f.glyphs[i].age, f.glyphs[j].age)
        /\ Cell(f.glyphs[i].content, f.glyphs[i].style)
             # Cell(f.glyphs[j].content, f.glyphs[j].style)

\* C1: when glyphs of one frame land on the same cell, the cell is left with
\* the character and style of a glyph of the smallest age among them
C1_YoungestGlyphOnTop ==
    frame.status = "ok" =>
        \A c \in DOMAIN frame.buf :
            GlyphsOn(frame, c) # {} =>
                \E i \in GlyphsOn(frame, c) :
                    /\ \A j \in GlyphsOn(frame, c) :
                           QLe(frame.glyphs[i].age, frame.glyphs[j].age)
                    /\ frame.buf[c] = Cell(frame.glyphs[i].content, frame.glyphs[i].style)

\* C2: with a well-formed character set, render completes on every surface,
\* a surface of width 0 or height 0 included, and an empty surface receives
\* no glyph
C2_RenderNeverFails ==
    /\ (frame.status = "panic" => size(frame.rain.character_set) = 0)
    /\ (frame.status = "ok" /\ (frame.area.width = 0 \/ frame.area.height = 0)
            => frame.glyphs = <<>>)

\* the sparseness a density resolves with, 0 for Absolute
Sparseness(density) ==
    CASE density.kind = "Relative" -> density.n
      [] density.kind = "Torrential" -> 20
      [] density.kind = "Showering" -> 50
      [] density.kind = "Sprinkling" -> 100
      [] OTHER -> 0

\* C3: Relative{sparseness > 0} and the presets with sparseness 20, 50, 100
\* resolve to floor(width * height / sparseness) on the true product
C3_RelativeDropCount ==
    (pc = "returned" /\ Sparseness(call.density) > 0) =>
        /\ ~ret.panic
        /\ ret.value = (call.area.width * call.area.height) \div Sparseness(call.density)

\* C4: no render call fails because of an empty character set (an empty set
\* never reaches render: with_character_set rejects it)
C4_EmptyCharacterSetRejected ==
    ~ /\ frame.status = "panic"
      /\ size(frame.rain.character_set) = 0
      /\ frame.area.width > 0
      /\ frame.area.height > 0

\* the trail offsets of drop l whose glyph reaches the row computation
ReachesRow(l) == {k \in 0..(l.drop_len - 1) : ~glyph_skipped(l, k)}

C7_UniformHalfOpen ==
    pc = "returned" => QLe(call.lower, ret) /\ QLt(ret, call.upper)

\* C8: no glyph of a frame has cycle number 0
C8_NoCycleZeroGlyph ==
    frame.status = "ok" =>
        \A i \in 1..Len(frame.entropy) :
            \A n \in 1..Len(frame.drops[i]) :
                CycleNumber(FrameLocals(frame, i), frame.drops[i][n].age) # 0

\* a glyph that is old enough to have appeared and whose row and column are on
\* the surface is held back because its cycle number is 0
C8_Witness ==
    /\ frame.status = "ok"
    /\ frame.area.width > 0
    /\ \E i \in 1..Len(frame.entropy) :
           LET l == FrameLocals(frame, i)
           IN  \E k \in 0..(l.drop_len - 1) :
                   /\ QLe(glyph_age(l, k), l.elapsed)
                   /\ CycleNumber(l, glyph_age(l, k)) = 0
                   /\ (l.head_y + l.track_len - k) % l.track_len < frame.area.height

\* the two render calls the history holds
Kept == {f \in {earlier, frame} : f.status = "ok"}

\* the configuration of a frame without its elapsed time
Config(f) == [f.rain EXCEPT !.elapsed = 0]

\* drop i of frame f and drop i of frame g are the same drop: the same index,
\* entropy vector and configuration
SameDrop(f, g, i) ==
    /\ i \in 1..Len(f.entropy)
    /\ i \in 1..Len(g.entropy)
    /\ f.entropy[i] = g.entropy[i]
    /\ Config(f) = Config(g)

HeadCycle(l) == CycleNumber(l, <<0, 1>>)

\* C10: for one drop and two elapsed times t1 <= t2 of the same cycle,
\* 0 <= headRow(t1) <= headRow(t2) < trackLength and headRow(t2) - headRow(t1)
\* <= ceil(perDropSpeed * (t2 - t1)); the head row decreases only when the
\* cycle number increases
C10_HeadRowMonotone ==
    \A f, g \in Kept :
        \A i \in 1..Len(f.entropy) :
            (SameDrop(f, g, i) /\ f.rain.elapsed <= g.rain.elapsed) =>
                LET l1 == FrameLocals(f, i)
                    l2 == FrameLocals(g, i)
                IN  /\ HeadCycle(l1) = HeadCycle(l2) =>
                           /\ 0 <= l1.head_y
                           /\ l1.head_y <= l2.head_y
                           /\ l2.head_y < Len(f.entropy[i])
                           /\ l2.head_y - l1.head_y
                                <= QCeil(QMul(l1.rain_speed, QSub(l2.elapsed, l1.elapsed)))
                    /\ l2.head_y < l1.head_y => HeadCycle(l2) > HeadCycle(l1)

\* two frames of one drop in the same cycle between which the head moved down,
\* and two between which it wrapped to a smaller row
C10_Witness ==
    /\ earlier.status = "ok"
    /\ frame.status = "ok"
    /\ earlier.rain.elapsed < frame.rain.elapsed
    /\ \E i \in 1..Len(frame.entropy) :
           /\ SameDrop(earlier, frame, i)
           /\ HeadCycle(FrameLocals(earlier, i)) = HeadCycle(FrameLocals(frame, i))
           /\ FrameLocals(earlier, i).head_y < FrameLocals(frame, i).head_y
    /\ \E i \in 1..Len(frame.entropy) :
           /\ SameDrop(earlier, frame, i)
           /\ FrameLocals(frame, i).head_y < FrameLocals(earlier, i).head_y

\* the glyphs of a frame whose cell, counted from the origin of the area, is p
PlacedOn(f, area, p) ==
    {i \in 1..Len(f.glyphs) : <<area.x + f.glyphs[i].x, area.y + f.glyphs[i].y>> = p}

\* C11: for every origin of the area, render completes, a glyph with column c
\* and row r is written to cell (area.x + c, area.y + r), and every other cell
\* of the buffer, inside or outside the area, keeps what it held
C11_WritesInsideArea ==
    (frame.status # "none" /\ frame.glyphs # <<>>) =>
        /\ frame.status = "ok"
        /\ \A p \in DOMAIN call.buf :
               IF PlacedOn(frame, call.area, p) = {}
               THEN frame.buf[p] = call.buf[p]
               ELSE \E i \in PlacedOn(frame, call.area, p) :
                        frame.buf[p] = Cell(frame.glyphs[i].content, frame.glyphs[i].style)

====
